---- MODULE Spec2Model ----
(***************************************************************************)
(* GoodWe inverter numeric setting entities (number.py).                   *)
(*                                                                         *)
(* The module models the descriptor registry NUMBERS, the setup routine    *)
(* async_setup_entry and the entity class InverterNumberEntity.            *)
(*                                                                         *)
(* Python floats are modelled as fixed-point numbers: the float x is the   *)
(* integer x * FracDen, so FloatOf(i) = i * FracDen and int() truncates    *)
(* toward zero.  The device library (goodwe.Inverter) is external: a read  *)
(* returns the device's current setting or raises InverterError or         *)
(* ValueError, a write stores the value or raises InverterError.           *)
(***************************************************************************)
EXTENDS Integers, Sequences, FiniteSets, TLC

VARIABLES
    model,          \* type(inverter).__name__
    serial,         \* inverter.serial_number
    dev,            \* settings held by the inverter
    pc,             \* position of async_setup_entry: "loop", "await", "done"
    idx,            \* index in NUMBERS of the descriptor the loop is at
    inflight,       \* descriptors whose getter has been called and not finished
    entities,       \* the local list `entities` of async_setup_entry
    registered,     \* entities handed to the host by async_add_entities
    addCalls,       \* number of async_add_entities calls
    reads,          \* log of finished getter calls: [desc, result]
    setterCalls,    \* log of device setter calls: [method, arg, result]
    haStateWrites,  \* number of async_write_ha_state calls
    request,        \* the last async_set_native_value request: [ent, value]
    raised,         \* what the last async_set_native_value call raised
    nreq,           \* number of async_set_native_value requests so far
    synced,         \* per descriptor: value of its last successful read/write
    written         \* descriptors whose entity has received a write request

vars == << model, serial, dev, pc, idx, inflight, entities, registered,
           addCalls, reads, setterCalls, haStateWrites, request, raised,
           nreq, synced, written >>

\* ------------------------------------------------------------------ bounds

\* Denominator of the fixed-point representation of floats.
FracDen == 2

\* Number of write requests the host issues.
MaxWrites == 2

\* ------------------------------------------------------------ float / int

\* float(i)
FloatOf(i) == i * FracDen

\* int(f) truncating toward minus infinity (what a floor would do)
IntOfFloor(f) == f \div FracDen

\* int(f): Python truncates toward zero
IntOf(f) == IF f >= 0 THEN f \div FracDen ELSE -((-f) \div FracDen)

\* abs(i)
Abs(i) == IF i < 0 THEN -i ELSE i

\* ---------------------------------------------------------------- NUMBERS

\* DOMAIN, the fixed domain tag imported from .const
DOMAIN_TAG == "goodwe"

NUMBERS == <<
    [ key |-> "grid_export_limit", native_step |-> 100, native_min_value |-> 0,
      native_max_value |-> 10000, getter |-> "get_grid_export_limit",
      mapper |-> "identity", setter |-> "set_grid_export_limit",
      filter |-> "not_DT" ],
    [ key |-> "grid_export_limit", native_step |-> 1, native_min_value |-> 0,
      native_max_value |-> 100, getter |-> "get_grid_export_limit",
      mapper |-> "identity", setter |-> "set_grid_export_limit",
      filter |-> "is_DT" ],
    [ key |-> "battery_discharge_depth", native_step |-> 1, native_min_value |-> 0,
      native_max_value |-> 99, getter |-> "get_ongrid_battery_dod",
      mapper |-> "identity", setter |-> "set_ongrid_battery_dod",
      filter |-> "always" ],
    [ key |-> "eco_mode_power", native_step |-> 1, native_min_value |-> 0,
      native_max_value |-> 100, getter |-> "read_setting_eco_mode_1",
      mapper |-> "abs_power", setter |-> "None",
      filter |-> "always" ],
    [ key |-> "eco_mode_soc", native_step |-> 1, native_min_value |-> 0,
      native_max_value |-> 100, getter |-> "read_setting_eco_mode_1",
      mapper |-> "soc", setter |-> "None",
      filter |-> "always" ]
>>

Descs == 1 .. Len(NUMBERS)

\* description.filter(inverter) with every filter accepting
FilterAlways(d, m) == TRUE

\* description.filter(inverter) with the two model tests exchanged
FilterSwapped(d, m) ==
    CASE NUMBERS[d].filter = "not_DT" -> m = "DT"
      [] NUMBERS[d].filter = "is_DT"  -> m # "DT"
      [] OTHER                        -> TRUE

\* description.filter(inverter)
Filter(d, m) ==
    CASE NUMBERS[d].filter = "not_DT" -> m # "DT"
      [] NUMBERS[d].filter = "is_DT"  -> m = "DT"
      [] OTHER                        -> TRUE

\* `if self.entity_description.setter` with the test dropped
HasSetterAlways(d) == TRUE

\* `if self.entity_description.setter`
HasSetter(d) == NUMBERS[d].setter # "None"

\* A raw eco_mode_1 reading: absent (falsy) or an object with power and soc.
NoReading == [ present |-> FALSE, power |-> 0, soc |-> 0 ]
EcoReading(p, s) == [ present |-> TRUE, power |-> p, soc |-> s ]

\* description.mapper(v) without the abs()
MapperNoAbs(d, v) ==
    CASE NUMBERS[d].mapper = "abs_power" -> IF v.present THEN v.power ELSE 0
      [] NUMBERS[d].mapper = "soc"       -> IF v.present THEN v.soc ELSE 0
      [] OTHER                           -> v

\* description.mapper(v)
Mapper(d, v) ==
    CASE NUMBERS[d].mapper = "abs_power" -> IF v.present THEN Abs(v.power) ELSE 0
      [] NUMBERS[d].mapper = "soc"       -> IF v.present THEN v.soc ELSE 0
      [] OTHER                           -> v

\* What description.getter(inverter) returns when the device answers.
Getter(d, device) ==
    CASE NUMBERS[d].getter = "get_grid_export_limit"  -> device.grid_export_limit
      [] NUMBERS[d].getter = "get_ongrid_battery_dod" -> device.ongrid_battery_dod
      [] OTHER                                        -> device.eco_mode_1

\* The device after description.setter(inverter, val) succeeded.
Setter(d, device, val) ==
    CASE NUMBERS[d].setter = "set_grid_export_limit" ->
            [ device EXCEPT !.grid_export_limit = val ]
      [] NUMBERS[d].setter = "set_ongrid_battery_dod" ->
            [ device EXCEPT !.ongrid_battery_dod = val ]
      [] OTHER -> device

\* f"{DOMAIN}-{description.key}-{inverter.serial_number}"
UniqueId(d, sn) == DOMAIN_TAG \o "-" \o NUMBERS[d].key \o "-" \o sn

\* InverterNumberEntity.__init__
InverterNumberEntity(d, sn, current_value) ==
    [ desc |-> d, unique_id |-> UniqueId(d, sn),
      native_value |-> FloatOf(current_value) ]

\* ------------------------------------------------------------------ inputs

ModelNames == { "DT", "ET", "ES" }
SerialNumbers == { "SN1" }
EcoReadings == { NoReading, EcoReading(-450, 20), EcoReading(30, 0) }
Devices ==
    [ grid_export_limit : { 50 }, ongrid_battery_dod : { 10 },
      eco_mode_1 : EcoReadings ]
ReadErrors == { "InverterError", "ValueError" }

\* Values the host asks to write: -1.5, 0.0, 1.5 and 3.0 when FracDen = 2.
WriteVals == { -(FracDen + 1), 0, FracDen + 1, 3 * FracDen }

\* -------------------------------------------------------------------- Init

Init ==
    /\ model \in ModelNames
    /\ serial \in SerialNumbers
    /\ dev \in Devices
    /\ pc = "loop"
    /\ idx = 1
    /\ inflight = {}
    /\ entities = << >>
    /\ registered = << >>
    /\ addCalls = 0
    /\ reads = << >>
    /\ setterCalls = << >>
    /\ haStateWrites = 0
    /\ request = [ ent |-> 0, value |-> 0 ]
    /\ raised = "none"
    /\ nreq = 0
    /\ synced = << >>
    /\ written = {}

writeVars == << setterCalls, haStateWrites, request, raised, nreq, written >>

\* ------------------------------------------------------- async_setup_entry

\* The lazy filter(...) drops a descriptor whose filter rejects the inverter.
SetupFilterSkip ==
    /\ pc = "loop" /\ idx \in Descs
    /\ ~Filter(idx, model)
    /\ idx' = idx + 1
    /\ UNCHANGED << model, serial, dev, pc, inflight, entities, registered,
                    addCalls, reads, synced >>
    /\ UNCHANGED writeVars

\* description.getter(inverter) is called and awaited, whatever the filter says.
SetupCallGetterUnfiltered ==
    /\ pc = "loop" /\ idx \in Descs
    /\ inflight = {}
    /\ inflight' = { idx }
    /\ pc' = "await"
    /\ UNCHANGED << model, serial, dev, idx, entities, registered, addCalls,
                    reads, synced >>
    /\ UNCHANGED writeVars

\* description.getter(inverter) is called and awaited.
SetupCallGetter ==
    /\ pc = "loop" /\ idx \in Descs
    /\ Filter(idx, model)
    /\ inflight = {}
    /\ inflight' = { idx }
    /\ pc' = "await"
    /\ UNCHANGED << model, serial, dev, idx, entities, registered, addCalls,
                    reads, synced >>
    /\ UNCHANGED writeVars

\* The getter returns; the mapped value seeds a new entity.
SetupGetterReturns ==
    /\ pc = "await"
    /\ \E d \in inflight :
        LET current_value == Mapper(d, Getter(d, dev)) IN
        /\ inflight' = inflight \ { d }
        /\ entities' = Append(entities, InverterNumberEntity(d, serial, current_value))
        /\ reads' = Append(reads, [ desc |-> d, result |-> "ok" ])
        /\ synced' = (d :> current_value) @@ synced
    /\ idx' = idx + 1
    /\ pc' = "loop"
    /\ UNCHANGED << model, serial, dev, registered, addCalls >>
    /\ UNCHANGED writeVars

\* The getter raises and the loop is left (break instead of continue).
SetupGetterRaisesBreak ==
    /\ pc = "await"
    /\ \E d \in inflight, err \in ReadErrors :
        /\ inflight' = inflight \ { d }
        /\ reads' = Append(reads, [ desc |-> d, result |-> err ])
    /\ idx' = Len(NUMBERS) + 1
    /\ pc' = "loop"
    /\ UNCHANGED << model, serial, dev, entities, registered, addCalls, synced >>
    /\ UNCHANGED writeVars

\* The getter raises and the same descriptor is read again.
SetupGetterRaisesRetry ==
    /\ pc = "await"
    /\ Len(reads) < 2 * Len(NUMBERS)
    /\ \E d \in inflight, err \in ReadErrors :
        /\ inflight' = inflight \ { d }
        /\ reads' = Append(reads, [ desc |-> d, result |-> err ])
    /\ pc' = "loop"
    /\ UNCHANGED << model, serial, dev, idx, entities, registered, addCalls, synced >>
    /\ UNCHANGED writeVars

\* The getter (or mapper) raises InverterError or ValueError: logged, skipped.
SetupGetterRaises ==
    /\ pc = "await"
    /\ \E d \in inflight, err \in ReadErrors :
        /\ inflight' = inflight \ { d }
        /\ reads' = Append(reads, [ desc |-> d, result |-> err ])
    /\ idx' = idx + 1
    /\ pc' = "loop"
    /\ UNCHANGED << model, serial, dev, entities, registered, addCalls, synced >>
    /\ UNCHANGED writeVars

\* async_add_entities(entities) after the loop.
SetupAddEntities ==
    /\ pc = "loop" /\ idx > Len(NUMBERS)
    /\ registered' = registered \o entities
    /\ addCalls' = addCalls + 1
    /\ pc' = "done"
    /\ UNCHANGED << model, serial, dev, idx, inflight, entities, reads, synced >>
    /\ UNCHANGED writeVars

\* ------------------------------- InverterNumberEntity.async_set_native_value

\* No setter: the value is cached and the host notified.
SetNativeValueNoSetter(e, v) ==
    /\ ~HasSetter(registered[e].desc)
    /\ registered' = [ registered EXCEPT ![e].native_value = v ]
    /\ haStateWrites' = haStateWrites + 1
    /\ raised' = "none"
    /\ UNCHANGED << dev, setterCalls, synced >>

\* The setter raises and the value is cached and the host notified all the same.
SetNativeValueSetterRaisesCaches(e, v) ==
    /\ HasSetter(registered[e].desc)
    /\ setterCalls' = Append(setterCalls,
            [ method |-> NUMBERS[registered[e].desc].setter, arg |-> IntOf(v),
              result |-> "InverterError" ])
    /\ registered' = [ registered EXCEPT ![e].native_value = v ]
    /\ haStateWrites' = haStateWrites + 1
    /\ raised' = "InverterError"
    /\ UNCHANGED << dev, synced >>

\* The setter succeeds but `self._attr_native_value = value` is left out.
SetNativeValueSetterOkNoCache(e, v) ==
    /\ HasSetter(registered[e].desc)
    /\ setterCalls' = Append(setterCalls,
            [ method |-> NUMBERS[registered[e].desc].setter, arg |-> IntOf(v),
              result |-> "ok" ])
    /\ dev' = Setter(registered[e].desc, dev, IntOf(v))
    /\ synced' = [ synced EXCEPT ![registered[e].desc] = IntOf(v) ]
    /\ haStateWrites' = haStateWrites + 1
    /\ raised' = "none"
    /\ UNCHANGED registered

\* The setter is awaited and succeeds: the value is cached, the host notified.
SetNativeValueSetterOk(e, v) ==
    /\ HasSetter(registered[e].desc)
    /\ setterCalls' = Append(setterCalls,
            [ method |-> NUMBERS[registered[e].desc].setter, arg |-> IntOf(v),
              result |-> "ok" ])
    /\ dev' = Setter(registered[e].desc, dev, IntOf(v))
    /\ synced' = [ synced EXCEPT ![registered[e].desc] = IntOf(v) ]
    /\ registered' = [ registered EXCEPT ![e].native_value = v ]
    /\ haStateWrites' = haStateWrites + 1
    /\ raised' = "none"

\* The setter is awaited and raises: the error leaves the handler.
SetNativeValueSetterRaises(e, v) ==
    /\ HasSetter(registered[e].desc)
    /\ setterCalls' = Append(setterCalls,
            [ method |-> NUMBERS[registered[e].desc].setter, arg |-> IntOf(v),
              result |-> "InverterError" ])
    /\ raised' = "InverterError"
    /\ UNCHANGED << dev, synced, registered, haStateWrites >>

\* What every call of the handler does, whichever way it goes: the request
\* is taken (the host calls it on registered entities only).
WriteRequest(e, v) ==
    /\ pc = "done"
    /\ nreq < MaxWrites
    /\ request' = [ ent |-> e, value |-> v ]
    /\ nreq' = nreq + 1
    /\ written' = written \cup { registered[e].desc }
    /\ UNCHANGED << model, serial, pc, idx, inflight, entities, addCalls, reads >>

\* async_set_native_value(value) on registered entity e, by the way it goes.
async_set_native_value_no_setter ==
    \E e \in 1 .. Len(registered), v \in WriteVals :
        WriteRequest(e, v) /\ SetNativeValueNoSetter(e, v)

async_set_native_value_ok ==
    \E e \in 1 .. Len(registered), v \in WriteVals :
        WriteRequest(e, v) /\ SetNativeValueSetterOk(e, v)

async_set_native_value_raises ==
    \E e \in 1 .. Len(registered), v \in WriteVals :
        WriteRequest(e, v) /\ SetNativeValueSetterRaises(e, v)

Next ==
    \/ SetupFilterSkip
    \/ SetupCallGetter
    \/ SetupGetterReturns
    \/ SetupGetterRaises
    \/ SetupAddEntities
    \/ async_set_native_value_no_setter
    \/ async_set_native_value_ok
    \/ async_set_native_value_raises

Spec == Init /\ [][Next]_vars

\* ------------------------------------------------------ helpers of the claims

\* a is the truncation toward zero of the fixed-point number f.
IsTruncationOf(a, f) ==
    /\ a * f >= 0
    /\ Abs(a) * FracDen <= Abs(f)
    /\ Abs(f) < (Abs(a) + 1) * FracDen

\* The step is a call of async_set_native_value.
IsWrite == nreq' = nreq + 1

\* Positions in a list of entities that were built from descriptor d.
EntitiesOf(list, d) == { i \in 1 .. Len(list) : list[i].desc = d }

\* Positions in the read log of the reads of descriptor d.
ReadsOf(d) == { r \in 1 .. Len(reads) : reads[r].desc = d }

\* The descriptors that take part in setup for model m, in NUMBERS order.
Candidates(m) == SelectSeq([ d \in Descs |-> d ], LAMBDA d : Filter(d, m))

\* ---------------------------------------------------------------------- C1

\* C1: a write of V to an entity whose descriptor has a setter makes exactly
\* one device-setter call, with the truncation of V; when the call succeeds
\* the cached value becomes V; when it fails the cached value is unchanged,
\* the host is not notified and the error reaches the caller.
C1_SetterWrite ==
    [][ (IsWrite /\ NUMBERS[registered[request'.ent].desc].setter # "None") =>
        LET e == request'.ent
            v == request'.value
            call == setterCalls'[Len(setterCalls')]
        IN  /\ Len(setterCalls') = Len(setterCalls) + 1
            /\ SubSeq(setterCalls', 1, Len(setterCalls)) = setterCalls
            /\ call.method = NUMBERS[registered[e].desc].setter
            /\ IsTruncationOf(call.arg, v)
            /\ reads' = reads
            /\ call.result = "ok" =>
                  /\ registered'[e].native_value = v
                  /\ raised' = "none"
            /\ call.result # "ok" =>
                  /\ registered'[e].native_value = registered[e].native_value
                  /\ haStateWrites' = haStateWrites
                  /\ raised' = call.result
      ]_vars

\* A failed write of -1.5 reached the setter as -1 and left the cache alone.
C1_Witness ==
    /\ nreq > 0
    /\ raised = "InverterError"
    /\ request.value = -(FracDen + 1)
    /\ setterCalls # << >>
    /\ setterCalls[Len(setterCalls)].arg = -1
    /\ registered[request.ent].native_value # request.value

\* ---------------------------------------------------------------------- C2

\* C2: an entity exists only for a descriptor whose filter accepted the model
\* and whose read succeeded during setup.
C2_EntityOnlyIfFilterAndRead ==
    \A d \in Descs :
        (EntitiesOf(entities, d) # {} \/ EntitiesOf(registered, d) # {}) =>
            /\ Filter(d, model)
            /\ \E r \in ReadsOf(d) : reads[r].result = "ok"

\* Setup is over for a DT inverter, with a failed read and a registered entity.
C2_Witness ==
    /\ pc = "done"
    /\ model = "DT"
    /\ registered # << >>
    /\ \E r \in 1 .. Len(reads) : reads[r].result # "ok"
    /\ EntitiesOf(registered, 1) = {}

\* ---------------------------------------------------------------------- C3

\* C3: a read that raises InverterError or ValueError creates no entity and
\* does not end the loop: every descriptor the loop has passed and that passes
\* its filter has been read, has an entity exactly when its read succeeded,
\* and the batch registered at the end holds exactly those entities.
C3_FailedReadSkipsOnly ==
    /\ \A d \in Descs :
          (d < idx /\ Filter(d, model)) =>
              /\ ReadsOf(d) # {}
              /\ \A r \in ReadsOf(d) :
                    (reads[r].result = "ok") <=> (EntitiesOf(entities, d) # {})
    /\ pc = "done" =>
          /\ idx = Len(NUMBERS) + 1
          /\ \A d \in Descs :
                (\E r \in ReadsOf(d) : reads[r].result = "ok")
                    <=> (EntitiesOf(registered, d) # {})

\* Two reads failed, one of each kind, and a later one still got its entity.
C3_Witness ==
    /\ pc = "done"
    /\ \E r1, r2, r3 \in 1 .. Len(reads) :
          /\ r1 < r2 /\ r2 < r3
          /\ reads[r1].result = "InverterError"
          /\ reads[r2].result = "ValueError"
          /\ reads[r3].result = "ok"
          /\ EntitiesOf(registered, reads[r3].desc) # {}
          /\ EntitiesOf(registered, reads[r1].desc) = {}

\* ---------------------------------------------------------------------- C4

\* C4: a write of V to an eco_mode_power or eco_mode_soc entity (no setter)
\* calls no method of the device, leaves the device as it was and caches V.
C4_NoSetterWrite ==
    [][ (IsWrite /\ NUMBERS[registered[request'.ent].desc].key
                        \in { "eco_mode_power", "eco_mode_soc" }) =>
        /\ setterCalls' = setterCalls
        /\ reads' = reads
        /\ dev' = dev
        /\ registered'[request'.ent].native_value = request'.value
      ]_vars

\* An eco-mode entity holds the fractional value just written to it and the
\* device was never written.
C4_Witness ==
    /\ nreq > 0
    /\ NUMBERS[registered[request.ent].desc].key = "eco_mode_power"
    /\ request.value = FracDen + 1
    /\ registered[request.ent].native_value = request.value
    /\ setterCalls = << >>

\* ---------------------------------------------------------------------- C5

\* C5: exactly one of the two grid_export_limit descriptors passes its filter:
\* the percentage one (0..100 step 1) for model "DT", the watt one
\* (0..10000 step 100) for every other model; so at most one
\* grid_export_limit entity is created.
C5_ExportLimitChoice ==
    LET watt == 1
        pct  == 2
        bounds(d) == << NUMBERS[d].native_min_value, NUMBERS[d].native_max_value,
                        NUMBERS[d].native_step >>
    IN  /\ NUMBERS[watt].key = "grid_export_limit"
        /\ NUMBERS[pct].key = "grid_export_limit"
        /\ bounds(watt) = << 0, 10000, 100 >>
        /\ bounds(pct) = << 0, 100, 1 >>
        /\ Filter(pct, model) <=> (model = "DT")
        /\ Filter(watt, model) <=> (model # "DT")
        /\ \A list \in { entities, registered } :
              /\ Cardinality({ i \in 1 .. Len(list) :
                      NUMBERS[list[i].desc].key = "grid_export_limit" }) <= 1
              /\ EntitiesOf(list, pct) # {} => model = "DT"
              /\ EntitiesOf(list, watt) # {} => model # "DT"

\* A DT inverter got the percentage-based entity.
C5_Witness ==
    /\ pc = "done"
    /\ model = "DT"
    /\ EntitiesOf(registered, 2) # {}

\* ---------------------------------------------------------------------- C6

\* C6 as stated: every write request caches V and notifies the host.
C6_Original ==
    [][ IsWrite =>
        /\ registered'[request'.ent].native_value = request'.value
        /\ haStateWrites' = haStateWrites + 1
      ]_vars

\* C6 amended: a write request caches V and notifies the host once when the
\* descriptor has no setter or its setter call succeeds; when the setter
\* raises, the cached value is not updated and the host is not notified.
C6_CacheAndNotifyUnlessRaised ==
    [][ IsWrite =>
        LET e == request'.ent
            d == registered[e].desc
        IN  /\ raised' = "none" =>
                  /\ registered'[e].native_value = request'.value
                  /\ haStateWrites' = haStateWrites + 1
            /\ raised' # "none" =>
                  /\ NUMBERS[d].setter # "None"
                  /\ registered'[e].native_value = registered[e].native_value
                  /\ haStateWrites' = haStateWrites
            /\ NUMBERS[d].setter = "None" => raised' = "none"
      ]_vars

\* One write was cached and notified, another one raised and was not.
C6_Witness ==
    /\ nreq >= 2
    /\ haStateWrites = 1
    /\ raised = "InverterError"
    /\ registered[request.ent].native_value # request.value

\* ---------------------------------------------------------------------- C7

\* C7 as stated: the cached value of every entity is the value of the last
\* successful device read or write of its setting.
C7_Original ==
    \A i \in 1 .. Len(registered) :
        registered[i].native_value = FloatOf(synced[registered[i].desc])

\* C7 amended: for an entity whose descriptor has a setter, the truncation of
\* the cached value is the value of the last successful device read or write
\* of its setting, also after failed writes; an entity whose descriptor has no
\* setter holds its mapped setup reading until the first write to it.
C7_SyncedUpToTruncation ==
    \A i \in 1 .. Len(registered) :
        LET d == registered[i].desc
            cached == registered[i].native_value
        IN  IF NUMBERS[d].setter # "None"
            THEN IsTruncationOf(synced[d], cached)
            ELSE d \notin written => cached = FloatOf(synced[d])

\* An entity caches 1.5 after the device was written with 1, and a later
\* write failed.
C7_Witness ==
    /\ nreq >= 2
    /\ raised = "InverterError"
    /\ \E i \in 1 .. Len(registered) :
          /\ registered[i].native_value = FracDen + 1
          /\ synced[registered[i].desc] = 1
          /\ NUMBERS[registered[i].desc].setter # "None"

\* ---------------------------------------------------------------------- C8

\* C8: the eco_mode_power entity is seeded with the absolute value of the
\* reading's power and the eco_mode_soc entity with its soc, and both with 0
\* when the reading is empty or absent.
C8_EcoModeMapping ==
    LET v == dev.eco_mode_1
        power == IF v.present THEN (IF v.power < 0 THEN -v.power ELSE v.power) ELSE 0
        soc == IF v.present THEN v.soc ELSE 0
    IN  \A i \in 1 .. Len(entities) :
          /\ NUMBERS[entities[i].desc].key = "eco_mode_power" =>
                entities[i].native_value = power * FracDen
          /\ NUMBERS[entities[i].desc].key = "eco_mode_soc" =>
                entities[i].native_value = soc * FracDen
          /\ (v = EcoReading(-450, 20)
                /\ NUMBERS[entities[i].desc].key = "eco_mode_power") =>
                entities[i].native_value = 450 * FracDen

\* power = -450 and soc = 20 were read: the entities show 450 and 20.
C8_Witness ==
    /\ pc = "done"
    /\ dev.eco_mode_1 = EcoReading(-450, 20)
    /\ \E i, j \in 1 .. Len(registered) :
          /\ NUMBERS[registered[i].desc].key = "eco_mode_power"
          /\ registered[i].native_value = 450 * FracDen
          /\ NUMBERS[registered[j].desc].key = "eco_mode_soc"
          /\ registered[j].native_value = 20 * FracDen

\* ---------------------------------------------------------------------- C9

\* C9: setup reads each descriptor that passes its filter exactly once, in
\* NUMBERS order, one read at a time and none again after a failure, and
\* registers the entities in exactly one batch call made after the last read.
C9_OneReadEachThenOneBatch ==
    /\ Cardinality(inflight) <= 1
    /\ \A r \in 1 .. Len(reads) : reads[r].desc = Candidates(model)[r]
    /\ Len(reads) <= Len(Candidates(model))
    /\ \A d \in inflight : ReadsOf(d) = {}
    /\ addCalls <= 1
    /\ (addCalls = 1) <=> (pc = "done")
    /\ pc # "done" => registered = << >>
    /\ pc = "done" =>
          /\ inflight = {}
          /\ Len(reads) = Len(Candidates(model))
          /\ registered = entities \/ nreq > 0

\* Setup ended after four reads, one of which failed, with one batch call.
C9_Witness ==
    /\ pc = "done"
    /\ addCalls = 1
    /\ Len(reads) = 4
    /\ Len(registered) = 3
    /\ reads[1].result = "InverterError"

\* --------------------------------------------------------------------- C10

\* C10: no two registered entities of one setup run have the same unique id
\* "<domain>-<key>-<serial>".
C10_UniqueIds ==
    /\ \A i, j \in 1 .. Len(registered) :
          i # j => registered[i].unique_id # registered[j].unique_id
    /\ \A i \in 1 .. Len(registered) :
          \E k \in { "grid_export_limit", "battery_discharge_depth",
                     "eco_mode_power", "eco_mode_soc" } :
              /\ NUMBERS[registered[i].desc].key = k
              /\ registered[i].unique_id = DOMAIN_TAG \o "-" \o k \o "-" \o serial

\* Every read succeeded: four entities with four different ids.
C10_Witness ==
    /\ pc = "done"
    /\ Len(registered) = 4
    /\ \E i \in 1 .. Len(registered) :
          registered[i].unique_id = DOMAIN_TAG \o "-grid_export_limit-" \o serial

====
